---- MODULE Spec2Model ----
(***************************************************************************)
(* ST-BasicSpotify: the browser extension's token manager, polling         *)
(* scheduler and player panel (index.js), as a state machine.              *)
(*                                                                         *)
(* Every handler runs to its next network await in one step (JavaScript    *)
(* runs a task and the promise continuations it queues without             *)
(* interleaving another task); a request in flight is an element of        *)
(* `tasks`, and the arrival of its response is a separate step.            *)
(***************************************************************************)
EXTENDS Integers, FiniteSets, Sequences, Bags, TLC

\* ---------------------------------------------------------------- bounds
MaxTok == 2          \* distinct token values the token endpoint hands out
MaxTasks == 2        \* requests in flight at once
MaxClock == 2        \* clock steps taken
MaxTimers == 2       \* interval handles the browser can hand out
MaxNotices == 2      \* "session expired" notices counted
MaxListeners == 1    \* message listeners registered by initiateAuth
MaxRequests == 3     \* loop requests the plugin's history keeps
MaxRedirects == 2    \* authorization redirects delivered to the page
MaxConnects == 2     \* Connect clicks followed in the authorization flow

\* ------------------------------------------------------------- constants
SkewMs == 60000      \* getValidToken: Date.now() > tokenExpiry - 60000

NoToken == 0         \* '' (empty string) for a token, 0 for tokenExpiry
NoStatus == -1       \* no response handled
NoFetch == [value |-> "none", error |-> NoStatus]   \* no call has resolved
\* The width of the progress bar has not been set: num / den is the ratio
\* of which style.width is the percentage.
NoProgress == [num |-> 0, den |-> 0]

\* playerctl(args) of the plugin returns stdout.trim(), or null when the
\* command exits non-zero (index.mjs lines 22-30).
NullOut == "<null>"
\* The loop modes of a player.
Loops == {"None", "Track", "Playlist"}
\* The plugin serves no command request.
IdleRoute ==
    [pc |-> "idle", verb |-> "", payload |-> [type |-> "undefined", value |-> 0],
     calls |-> <<>>, current |-> NullOut, response |-> {}, history |-> <<>>]
\* No player runs (playerctl exits non-zero).
StoppedPlayer == [running |-> FALSE, loop |-> "None"]
\* No getPlayerState call is running.
IdleBridge ==
    [pc |-> "idle", calls |-> <<>>, outputs |-> <<>>, raw |-> NullOut,
     metadata |-> "none",
     fields |-> [title |-> "", artist |-> "", album |-> "", artUrl |-> "",
                 position |-> "", length |-> ""],
     positionSec |-> 0, playing |-> FALSE, shuffle |-> FALSE, result |-> {}]
\* The token endpoint has not answered (or answered without a token).
NoResponse == [access |-> NoToken, refresh |-> NoToken, expires_in |-> 0]
\* No initiateAuth has run, no redirect has arrived, no disconnect.
NoAuthorization ==
    [state |-> 0, ran |-> FALSE, disconnected |-> FALSE, exchanges |-> <<>>,
     response |-> NoResponse]
Null == 0            \* pollingInterval = null
Tokens == 1..MaxTok
TimerIds == 1..MaxTimers
ClockStep == SkewMs \div 2
ExpiresIn == {90}                     \* data.expires_in, seconds: one and
                                      \* a half times the refresh margin
StoredExpiry == {SkewMs, SkewMs + ClockStep}

defaultSettings ==
    [clientId |-> NoToken, accessToken |-> NoToken, refreshToken |-> NoToken,
     tokenExpiry |-> 0, enablePanel |-> TRUE, useMpris |-> TRUE]

\* What extension_settings[extensionName] may hold when the page loads.
StoredSettings ==
    { [clientId |-> c, accessToken |-> t.a, refreshToken |-> t.r,
       tokenExpiry |-> t.e, enablePanel |-> p, useMpris |-> m] :
        c \in {NoToken, 1},
        t \in {[a |-> NoToken, r |-> NoToken, e |-> 0],
               [a |-> 1, r |-> NoToken, e |-> SkewMs]}
              \cup {[a |-> 1, r |-> 1, e |-> x] : x \in StoredExpiry},
        p \in BOOLEAN, m \in BOOLEAN }

VARIABLES
    booted,            \* the jQuery ready callback has run
    settings,          \* let settings
    saved,             \* settings as handed to the last saveSettings()
    pollingInterval,   \* let pollingInterval
    timers,            \* interval handles that are set and will fire
    playerPanel,       \* the panel element exists
    panelView,         \* what the panel shows
    connectionStatus,  \* text of #spotify_connection_status
    now,               \* Date.now()
    tasks,             \* bag of requests in flight
    codeVerifier,      \* localStorage 'spotify_code_verifier' is set
    listeners,         \* 'message' listeners registered on the window
    expiredNotices,    \* "session expired" notices since the last new token
    toasts,            \* the toastr notices the last step displayed
    lastStatus,        \* response.status the last step handled
    fetched,           \* what the last fetchPlayerState call resolved to
    lastPlugin,        \* the plugin state the last step handled, if any
    progressBar,       \* style.width of #spotify_progress_bar, as a ratio
    bridge,            \* the plugin's getPlayerState call (index.mjs)
    route,             \* the plugin's command routes (index.mjs)
    player,            \* the media player playerctl talks to
    authorization      \* the authorization attempts, the redirects that
                       \* reached exchangeCodeForToken, and the token
                       \* response the last refresh handled

fetchVars == <<fetched, lastPlugin, progressBar>>
pluginVars == <<bridge, route, player>>

\* What the component specifications observe of a single call; the
\* specification of the whole extension leaves these alone.
callVars == <<toasts, lastStatus, fetchVars, pluginVars, authorization>>

\* The variables of the extension's page.
pageVars == <<booted, settings, saved, pollingInterval, timers, playerPanel,
              panelView, connectionStatus, now, tasks, codeVerifier,
              listeners, expiredNotices>>

\* The variables of the extension (the browser side).
extensionVars == <<pageVars, toasts, lastStatus, fetchVars, authorization>>

vars == <<pageVars, callVars>>

\* The state as one record, so that handlers compose as functions.
Cur ==
    [settings |-> settings, saved |-> saved,
     pollingInterval |-> pollingInterval, timers |-> timers,
     playerPanel |-> playerPanel, panelView |-> panelView,
     connectionStatus |-> connectionStatus, now |-> now, tasks |-> tasks,
     codeVerifier |-> codeVerifier, listeners |-> listeners,
     expiredNotices |-> expiredNotices]

Set(s) ==
    /\ BagCardinality(s.tasks) <= MaxTasks
    /\ settings' = s.settings
    /\ saved' = s.saved
    /\ pollingInterval' = s.pollingInterval
    /\ timers' = s.timers
    /\ playerPanel' = s.playerPanel
    /\ panelView' = s.panelView
    /\ connectionStatus' = s.connectionStatus
    /\ now' = s.now
    /\ tasks' = s.tasks
    /\ codeVerifier' = s.codeVerifier
    /\ listeners' = s.listeners
    /\ expiredNotices' = s.expiredNotices

\* ------------------------------------------------------------- settings
SaveSettings(s) ==
    [s EXCEPT !.saved = s.settings]

UpdateSettingsStatus(s) ==
    [s EXCEPT !.connectionStatus =
        IF s.settings.accessToken # NoToken THEN "Connected" ELSE "Disconnected"]

\* ---------------------------------------------------------------- panel
CreatePlayerPanel(s) ==
    IF s.playerPanel THEN s
    ELSE [s EXCEPT !.playerPanel = TRUE, !.panelView = "initial"]

RemovePlayerPanel(s) ==
    [s EXCEPT !.playerPanel = FALSE, !.panelView = "none"]

\* The part of updatePlayerUI after `await fetchPlayerState()`: data is
\* "null", "noItem" (a body without item), "bareItem" (a body whose item
\* has no artists list) or "track".  With a bare item line 547 writes the
\* title and line 548 throws a TypeError on data.item.artists.map: the
\* panel is left "partial" and the promise of updatePlayerUI is rejected.
\* Without a panel the element lookups are null and nothing is evaluated.
Render(s, origin, data) ==
    LET view == IF data = "track" THEN "track"
                ELSE IF data = "bareItem" THEN "partial"
                ELSE "notPlaying" IN
    [s EXCEPT !.panelView = IF s.playerPanel THEN view ELSE @]

\* ---------------------------------------------------------------- tasks
\* A request in flight and the call that waits for it:
\*   op      "update" (updatePlayerUI), "control" (controlPlayer) or
\*           "exchange" (exchangeCodeForToken)
\*   origin  who called updatePlayerUI: "tick" (the interval), "start" and
\*           "restart" (startPolling itself, the latter when a timer was
\*           already set) or "ui" (a settings or menu handler)
\*   pc      the request awaited: "refresh" and "token" (token endpoint),
\*           "api" (remote player API), "mpris" (local plugin)
\*   token   the bearer token of an "api" request; for "refresh" the access
\*           token getValidToken found stored when it was called
\*   stored, savedTok   settings.accessToken and the access token last handed
\*           to saveSettings, at the moment the "api" request was sent
\*   afterReject   the call was made after a rejected refresh
Task(op, origin, pc, token, stored, savedTok, afterReject) ==
    [op |-> op, origin |-> origin, pc |-> pc, token |-> token,
     stored |-> stored, savedTok |-> savedTok, afterReject |-> afterReject]

AddTask(s, t) == [s EXCEPT !.tasks = @ (+) SetToBag({t})]
DropTask(s, t) == [s EXCEPT !.tasks = @ (-) SetToBag({t})]

\* -------------------------------------------------------- token manager
\* getValidToken line 212: the stored token is past its refresh point.
TokenExpiring(s) == s.now > s.settings.tokenExpiry - SkewMs

\* refreshAccessToken line 177 (negated): a refresh request can be built.
CanRefresh(s) ==
    s.settings.refreshToken # NoToken /\ s.settings.clientId # NoToken

\* getValidToken up to its first await: "null", "refresh" (a refresh request
\* goes out and the caller waits for it) or "token".
GetValidToken(s) ==
    IF s.settings.accessToken = NoToken THEN "null"
    ELSE IF TokenExpiring(s)
         THEN (IF CanRefresh(s) THEN "refresh" ELSE "null")
         ELSE "token"

\* getValidToken returning the token it read before the refresh.
TokenAfterRefresh_Stale(s, t) == t.token

\* getValidToken line 214: the value returned after a successful refresh;
\* t is the caller's task, t.token the access token it found at line 211.
TokenAfterRefresh(s, t) == s.settings.accessToken

\* refreshAccessToken storing data.refresh_token whether the response
\* carries one or not.
NewRefreshToken_Always(old, data) == data.refresh

\* refreshAccessToken line 195: the refresh token stored after a successful
\* refresh.
NewRefreshToken(old, data) ==
    IF data.refresh # NoToken THEN data.refresh ELSE old

\* refreshAccessToken without line 197's saveSettings().
RefreshSuccess_NoSave(s, data) ==
    [s EXCEPT !.settings.accessToken = data.access,
              !.settings.refreshToken = NewRefreshToken(@, data),
              !.settings.tokenExpiry = s.now + data.expires_in * 1000,
              !.expiredNotices = 0]

\* refreshAccessToken lines 193-198; data = [access, refresh, expires_in],
\* refresh = NoToken when the response carries no refresh_token.
RefreshSuccess(s, data) ==
    SaveSettings(
      [s EXCEPT !.settings.accessToken = data.access,
                !.settings.refreshToken = NewRefreshToken(@, data),
                !.settings.tokenExpiry = s.now + data.expires_in * 1000,
                !.expiredNotices = 0])

\* refreshAccessToken lines 199-203: the endpoint answered without a token.
RefreshRejected(s) ==
    [s EXCEPT !.expiredNotices = @ + 1]

\* A refresh has been rejected and no new token obtained since.
RejectedBefore(s) == s.expiredNotices > 0

\* -------------------------------------------------------- player logic
\* fetch(...) of the remote player API with the Authorization header.
SendApi(s, op, origin, token, afterReject) ==
    AddTask(s, Task(op, origin, "api", token, s.settings.accessToken,
                    s.saved.accessToken, afterReject))

\* The caller's continuation when getValidToken yields null:
\* fetchPlayerState returns null and updatePlayerUI renders it;
\* controlPlayer warns 'Not connected to Spotify.' and returns.
NoTokenContinue(s, op, origin) ==
    IF op = "update" THEN Render(s, origin, "null") ELSE s

\* fetchPlayerState lines 232-239 / controlPlayer lines 262-274, up to the
\* first network await.
BeginRemote(s, op, origin) ==
    LET r == GetValidToken(s) IN
    IF r = "null" THEN NoTokenContinue(s, op, origin)
    ELSE IF r = "refresh"
         THEN AddTask(s, Task(op, origin, "refresh", s.settings.accessToken,
                              NoToken, NoToken, RejectedBefore(s)))
         ELSE SendApi(s, op, origin, s.settings.accessToken,
                      RejectedBefore(s))

\* fetch of the local plugin (fetchMprisState / controlMpris).
BeginMpris(s, op, origin) ==
    AddTask(s, Task(op, origin, "mpris", NoToken, NoToken, NoToken, FALSE))

FetchPlayerState(s, origin) ==
    IF s.settings.useMpris THEN BeginMpris(s, "update", origin)
    ELSE BeginRemote(s, "update", origin)

ControlPlayer(s) ==
    IF s.settings.useMpris THEN BeginMpris(s, "control", "ui")
    ELSE BeginRemote(s, "control", "ui")

\* fetchPlayerState lines 241-253: the value a response resolves to.
ApiFetchResult(status, body) ==
    IF status = 204 THEN "null"
    ELSE IF status # 200 THEN "null"
    ELSE body

\* fetchMprisState lines 324-349.
MprisFetchResult(ok, available) ==
    IF ~ok THEN "null" ELSE IF ~available THEN "null" ELSE "track"

\* updatePlayerUI lines 520-530, up to `await fetchPlayerState()`.
UpdatePlayerUI(s, origin) ==
    IF ~s.settings.enablePanel THEN RemovePlayerPanel(s)
    ELSE FetchPlayerState(CreatePlayerPanel(s), origin)

\* ------------------------------------------------------------ scheduler
ClearPrior(s) ==
    IF s.pollingInterval # Null
    THEN [s EXCEPT !.timers = @ \ {s.pollingInterval}]
    ELSE s

FreshTimer(s) == CHOOSE id \in TimerIds \ s.timers :
                    \A j \in TimerIds \ s.timers : id <= j

CanSetInterval(s) == TimerIds \ ClearPrior(s).timers # {}

\* The origin of startPolling's own updatePlayerUI call: "restart" when
\* startPolling was called with a timer already set.
StartOrigin(s) == IF s.pollingInterval # Null THEN "restart" ELSE "start"

\* startPolling without line 603's clearInterval.
StartPolling_NoClear(s) ==
    LET id == FreshTimer(s)
        s2 == [s EXCEPT !.pollingInterval = id, !.timers = @ \cup {id}]
    IN UpdatePlayerUI(s2, StartOrigin(s))

\* startPolling lines 602-606.
StartPolling(s) ==
    LET s1 == ClearPrior(s)
        id == FreshTimer(s1)
        s2 == [s1 EXCEPT !.pollingInterval = id, !.timers = @ \cup {id}]
    IN UpdatePlayerUI(s2, StartOrigin(s))

\* stopPolling lines 608-611.
StopPolling(s) ==
    [ClearPrior(s) EXCEPT !.pollingInterval = Null]

\* ------------------------------------------------------------------ Init
\* The module has been evaluated: settings is a copy of defaultSettings,
\* no timer, no panel; the ready callback has not run yet.
ExtensionInit ==
    /\ booted = FALSE
    /\ settings = defaultSettings
    /\ saved \in StoredSettings
    /\ pollingInterval = Null
    /\ timers = {}
    /\ playerPanel = FALSE
    /\ panelView = "none"
    /\ connectionStatus = "Disconnected"
    /\ now = 0
    /\ tasks = EmptyBag
    /\ codeVerifier = FALSE
    /\ listeners = 0
    /\ expiredNotices = 0
    /\ toasts = {}
    /\ lastStatus = NoStatus
    /\ fetched = NoFetch
    /\ lastPlugin = {}
    /\ progressBar = NoProgress
    /\ bridge = IdleBridge
    /\ route = IdleRoute
    /\ authorization = NoAuthorization

Init == ExtensionInit /\ player = StoppedPlayer

\* --------------------------------------------------------------- actions
\* jQuery(async () => {...}) for a page loaded without a ?code parameter:
\* loadSettings, updateSettingsStatus, the panel and the first startPolling
\* (the retry timer of the menu button is no poll timer and is left out).
Ready ==
    /\ ~booted
    /\ booted' = TRUE
    /\ LET s1 == UpdateSettingsStatus([Cur EXCEPT !.settings = saved])
           s2 == IF s1.settings.enablePanel THEN CreatePlayerPanel(s1) ELSE s1
           s3 == IF s2.settings.useMpris \/ s2.settings.accessToken # NoToken
                 THEN StartPolling(s2) ELSE s2
       IN Set(s3)
    /\ UNCHANGED callVars

\* The interval set by startPolling fires: updatePlayerUI().
Tick ==
    /\ booted
    /\ \E id \in timers : Set(UpdatePlayerUI(Cur, "tick"))
    /\ UNCHANGED <<booted, callVars>>

\* Date.now() moves on.
AdvanceClock ==
    /\ booted
    /\ now < MaxClock * ClockStep
    /\ Set([Cur EXCEPT !.now = @ + ClockStep])
    /\ UNCHANGED <<booted, callVars>>

\* The caller's continuation once getValidToken has returned a token.
WithToken(s, t, token) == SendApi(s, t.op, t.origin, token, t.afterReject)

\* The token endpoint answers a refresh request with an access token.
RefreshOk ==
    /\ \E t \in BagToSet(tasks) :
         /\ t.pc = "refresh"
         /\ \E a \in Tokens, r \in {NoToken} \cup Tokens, e \in ExpiresIn :
              LET s1 == RefreshSuccess(DropTask(Cur, t),
                           [access |-> a, refresh |-> r, expires_in |-> e])
              IN Set(WithToken(s1, t, TokenAfterRefresh(s1, t)))
    /\ UNCHANGED <<booted, callVars>>

\* The token endpoint answers a refresh request without an access token.
RefreshFail ==
    /\ expiredNotices < MaxNotices
    /\ \E t \in BagToSet(tasks) :
         /\ t.pc = "refresh"
         /\ Set(NoTokenContinue(RefreshRejected(DropTask(Cur, t)),
                                t.op, t.origin))
    /\ UNCHANGED <<booted, callVars>>

\* The refresh request fails on the network (or its body does not parse).
RefreshNetError ==
    /\ \E t \in BagToSet(tasks) :
         /\ t.pc = "refresh"
         /\ Set(NoTokenContinue(DropTask(Cur, t), t.op, t.origin))
    /\ UNCHANGED <<booted, callVars>>

\* The remote player API answers a poll (a thrown fetch is status 0).
ApiFetchResponse ==
    /\ \E t \in BagToSet(tasks) :
         /\ t.pc = "api" /\ t.op = "update"
         /\ \E status \in {200, 204, 401, 0},
                 body \in {"track", "noItem", "bareItem"} :
              Set(Render(DropTask(Cur, t), t.origin,
                         ApiFetchResult(status, body)))
    /\ UNCHANGED <<booted, callVars>>

\* The remote player API answers a control command; only notices follow.
ApiControlResponse ==
    /\ \E t \in BagToSet(tasks) :
         /\ t.pc = "api" /\ t.op = "control"
         /\ Set(DropTask(Cur, t))
    /\ UNCHANGED <<booted, callVars>>

\* The local plugin answers GET status (a thrown fetch is ok = FALSE).
MprisFetchResponse ==
    /\ \E t \in BagToSet(tasks) :
         /\ t.pc = "mpris" /\ t.op = "update"
         /\ \E ok \in BOOLEAN, available \in BOOLEAN :
              Set(Render(DropTask(Cur, t), t.origin,
                         MprisFetchResult(ok, available)))
    /\ UNCHANGED <<booted, callVars>>

\* The local plugin answers a control command; only notices follow.
MprisControlResponse ==
    /\ \E t \in BagToSet(tasks) :
         /\ t.pc = "mpris" /\ t.op = "control"
         /\ Set(DropTask(Cur, t))
    /\ UNCHANGED <<booted, callVars>>

\* exchangeCodeForToken lines 158-165; data = [access, refresh, expires_in],
\* refresh = NoToken when the response carries no refresh_token.
ExchangeSuccess(s, data) ==
    LET s1 == [s EXCEPT !.settings.accessToken = data.access,
                        !.settings.refreshToken = data.refresh,
                        !.settings.tokenExpiry = s.now + data.expires_in * 1000,
                        !.expiredNotices = 0]
    IN StartPolling(UpdateSettingsStatus(SaveSettings(s1)))

\* The disconnect handler without line 680 (refreshToken kept).
Disconnect_KeepsRefresh(s) ==
    LET s1 == [s EXCEPT !.settings.accessToken = NoToken,
                        !.settings.tokenExpiry = 0]
    IN RemovePlayerPanel(StopPolling(UpdateSettingsStatus(SaveSettings(s1))))

\* The click handler of #spotify_disconnect_btn.
Disconnect(s) ==
    LET s1 == [s EXCEPT !.settings.accessToken = NoToken,
                        !.settings.refreshToken = NoToken,
                        !.settings.tokenExpiry = 0]
    IN RemovePlayerPanel(StopPolling(UpdateSettingsStatus(SaveSettings(s1))))

\* The change handler of #spotify_use_mpris.
UseMprisChange(s, checked) ==
    LET s1 == StopPolling(SaveSettings([s EXCEPT !.settings.useMpris = checked]))
    IN IF s1.settings.enablePanel THEN StartPolling(s1) ELSE s1

\* onSettingsChanged with the values read from the two inputs.
OnSettingsChanged(s, clientId, enablePanel) ==
    UpdatePlayerUI(SaveSettings([s EXCEPT !.settings.clientId = clientId,
                                         !.settings.enablePanel = enablePanel]),
                   "ui")

\* togglePlayer (the extensions-menu button).
TogglePlayer(s) ==
    UpdatePlayerUI(SaveSettings(
        [s EXCEPT !.settings.enablePanel = ~s.settings.enablePanel]), "ui")

\* initiateAuth past the clientId check: the verifier is stored, the popup
\* opened and one more 'message' listener registered.
InitiateAuth(s) ==
    IF s.settings.clientId = NoToken THEN s
    ELSE [s EXCEPT !.codeVerifier = TRUE, !.listeners = @ + 1]

\* The disconnect button is displayed while the status reads Connected.
DisconnectClick ==
    /\ booted
    /\ connectionStatus = "Connected"
    /\ Set(Disconnect(Cur))
    /\ UNCHANGED <<booted, callVars>>

\* The connect button is displayed while the status reads Disconnected.
ConnectClick ==
    /\ booted
    /\ connectionStatus = "Disconnected"
    /\ listeners < MaxListeners
    /\ Set(InitiateAuth(Cur))
    /\ UNCHANGED <<booted, callVars>>

\* The popup posts {type:'spotify-auth-code', code}: every registered
\* listener calls exchangeCodeForToken, which sends its token request.
AuthCodeMessage ==
    /\ booted
    /\ listeners > 0 /\ codeVerifier
    /\ Set([Cur EXCEPT !.tasks = @ (+)
              [t \in {Task("exchange", "none", "token", NoToken, NoToken,
                            NoToken, FALSE)}
                 |-> listeners]])
    /\ UNCHANGED <<booted, callVars>>

\* The token endpoint answers a code exchange with tokens.
ExchangeOk ==
    /\ \E t \in BagToSet(tasks) :
         /\ t.pc = "token"
         /\ CanSetInterval(Cur)
         /\ \E a \in Tokens, r \in {NoToken} \cup Tokens, e \in ExpiresIn :
              Set(ExchangeSuccess(DropTask(Cur, t),
                    [access |-> a, refresh |-> r, expires_in |-> e]))
    /\ UNCHANGED <<booted, callVars>>

\* The token endpoint refuses the code, or the request fails: a notice only.
ExchangeFail ==
    /\ \E t \in BagToSet(tasks) :
         /\ t.pc = "token"
         /\ Set(DropTask(Cur, t))
    /\ UNCHANGED <<booted, callVars>>

UseMprisChanged ==
    /\ booted
    /\ CanSetInterval(Cur)
    /\ Set(UseMprisChange(Cur, ~settings.useMpris))
    /\ UNCHANGED <<booted, callVars>>

ClientIdChanged ==
    /\ booted
    /\ \E c \in {NoToken, 1} \ {settings.clientId} :
         Set(OnSettingsChanged(Cur, c, settings.enablePanel))
    /\ UNCHANGED <<booted, callVars>>

EnablePanelChanged ==
    /\ booted
    /\ Set(OnSettingsChanged(Cur, settings.clientId, ~settings.enablePanel))
    /\ UNCHANGED <<booted, callVars>>

TogglePlayerClick ==
    /\ booted
    /\ Set(TogglePlayer(Cur))
    /\ UNCHANGED <<booted, callVars>>

\* The previous / next buttons of the panel: controlPlayer(command).
ControlClick ==
    /\ booted
    /\ playerPanel
    /\ Set(ControlPlayer(Cur))
    /\ UNCHANGED <<booted, callVars>>

Next ==
    \/ Ready
    \/ Tick
    \/ AdvanceClock
    \/ RefreshOk
    \/ RefreshFail
    \/ RefreshNetError
    \/ ApiFetchResponse
    \/ ApiControlResponse
    \/ MprisFetchResponse
    \/ MprisControlResponse
    \/ DisconnectClick
    \/ ConnectClick
    \/ AuthCodeMessage
    \/ ExchangeOk
    \/ ExchangeFail
    \/ UseMprisChanged
    \/ ClientIdChanged
    \/ EnablePanelChanged
    \/ TogglePlayerClick
    \/ ControlClick

Spec == Init /\ [][Next]_vars

\* ===================================================== control commands
\* controlPlayer and controlMpris with the notices they display, from a
\* loaded page on which the panel is shown.

\* controlPlayer lines 264-267 without the toastr.warning call.
NoTokenToasts_Silent(op) == {}

\* The notice of a caller that getValidToken handed null: controlPlayer
\* line 265; fetchPlayerState (line 234) displays none.
NoTokenToasts(op) ==
    IF op = "control" THEN {"Not connected to Spotify."} ELSE {}

\* refreshAccessToken line 201.
RefreshRejectedToasts == {"Spotify session expired. Please reconnect."}

\* controlPlayer with line 276's test falling through to line 280.
ControlToasts_No403(status) ==
    IF status = 404
    THEN {"No active Spotify device found. Start playback on a device first."}
    ELSE IF status # 204 THEN {"Failed to send command."}
    ELSE {}

\* controlPlayer lines 276-287: the notices for a response status; a fetch
\* that throws has status 0 and lands in the same catch block as the Error
\* thrown at line 281.
ControlToasts(status) ==
    IF status = 403
    THEN {"Spotify Premium required for controls (or no active device found)."}
    ELSE IF status = 404
    THEN {"No active Spotify device found. Start playback on a device first."}
    ELSE IF status # 204 THEN {"Failed to send command."}
    ELSE {}

\* controlMpris lines 304-315: ok is response.ok, threw a rejected fetch.
MprisControlToasts(ok, threw) ==
    IF threw THEN {"Failed to control player."}
    ELSE IF ~ok THEN {"MPRIS plugin not available."}
    ELSE {}

\* The statuses the remote player API answers a command with (0: the
\* request failed on the network).
ControlStatuses == {200, 204, 401, 403, 404, 500, 0}

\* The page after the ready callback and the first poll's response: the
\* panel is shown; polling runs if the mode is Local or a token is stored.
CtlInit ==
    /\ booted = TRUE
    /\ settings \in {r \in StoredSettings : r.enablePanel}
    /\ saved = settings
    /\ LET polling == settings.useMpris \/ settings.accessToken # NoToken
           id == FreshTimer([timers |-> {}])
       IN /\ pollingInterval = IF polling THEN id ELSE Null
          /\ timers = IF polling THEN {id} ELSE {}
          /\ panelView = IF polling THEN "notPlaying" ELSE "initial"
    /\ playerPanel = TRUE
    /\ connectionStatus =
          IF settings.accessToken # NoToken THEN "Connected" ELSE "Disconnected"
    /\ now = 0
    /\ tasks = EmptyBag
    /\ codeVerifier = FALSE
    /\ listeners = 0
    /\ expiredNotices = 0
    /\ toasts = {}
    /\ lastStatus = NoStatus
    /\ fetched = NoFetch
    /\ lastPlugin = {}
    /\ progressBar = NoProgress
    /\ bridge = IdleBridge
    /\ route = IdleRoute
    /\ authorization = NoAuthorization
    /\ player = StoppedPlayer

\* Date.now() moves on.
CtlClock ==
    /\ now < MaxClock * ClockStep
    /\ Set([Cur EXCEPT !.now = @ + ClockStep])
    /\ toasts' = {}
    /\ lastStatus' = NoStatus
    /\ UNCHANGED <<booted, fetchVars, pluginVars, authorization>>

\* A previous / next click: controlPlayer up to its first network await.
CtlCommand ==
    /\ playerPanel
    /\ Set(ControlPlayer(Cur))
    /\ toasts' = IF ~settings.useMpris /\ GetValidToken(Cur) = "null"
                 THEN NoTokenToasts("control") ELSE {}
    /\ lastStatus' = NoStatus
    /\ UNCHANGED <<booted, fetchVars, pluginVars, authorization>>

\* The token endpoint answers the refresh a command waits for.
CtlRefreshOk ==
    /\ \E t \in BagToSet(tasks) :
         /\ t.pc = "refresh"
         /\ \E a \in Tokens, r \in {NoToken} \cup Tokens, e \in ExpiresIn :
              LET data == [access |-> a, refresh |-> r, expires_in |-> e]
                  s1 == RefreshSuccess(DropTask(Cur, t), data)
              IN /\ Set(WithToken(s1, t, TokenAfterRefresh(s1, t)))
                 /\ authorization' = [authorization EXCEPT !.response = data]
    /\ toasts' = {}
    /\ lastStatus' = NoStatus
    /\ UNCHANGED <<booted, fetchVars, pluginVars>>

CtlRefreshFail ==
    /\ expiredNotices < MaxNotices
    /\ \E t \in BagToSet(tasks) :
         /\ t.pc = "refresh"
         /\ Set(NoTokenContinue(RefreshRejected(DropTask(Cur, t)),
                                t.op, t.origin))
         /\ toasts' = RefreshRejectedToasts \cup NoTokenToasts(t.op)
    /\ authorization' = [authorization EXCEPT !.response = NoResponse]
    /\ lastStatus' = NoStatus
    /\ UNCHANGED <<booted, fetchVars, pluginVars>>

CtlRefreshNetError ==
    /\ \E t \in BagToSet(tasks) :
         /\ t.pc = "refresh"
         /\ Set(NoTokenContinue(DropTask(Cur, t), t.op, t.origin))
         /\ toasts' = NoTokenToasts(t.op)
    /\ authorization' = [authorization EXCEPT !.response = NoResponse]
    /\ lastStatus' = NoStatus
    /\ UNCHANGED <<booted, fetchVars, pluginVars>>

\* The remote player API answers a command.
CtlApiResponse ==
    /\ \E t \in BagToSet(tasks) :
         /\ t.pc = "api" /\ t.op = "control"
         /\ Set(DropTask(Cur, t))
    /\ \E status \in ControlStatuses :
         /\ toasts' = ControlToasts(status)
         /\ lastStatus' = status
    /\ UNCHANGED <<booted, fetchVars, pluginVars, authorization>>

\* The local plugin answers a command.
CtlMprisResponse ==
    /\ \E t \in BagToSet(tasks) :
         /\ t.pc = "mpris" /\ t.op = "control"
         /\ Set(DropTask(Cur, t))
    /\ \E ok \in BOOLEAN, threw \in BOOLEAN :
         /\ ~(ok /\ threw)
         /\ toasts' = MprisControlToasts(ok, threw)
    /\ lastStatus' = NoStatus
    /\ UNCHANGED <<booted, fetchVars, pluginVars, authorization>>

\* The notice after the plugin answered a shuffle, loop or seek request
\* (lines 445-447, 460-463, 363-365): ok is response.ok, mode the mode the
\* loop route reports.
PluginToasts(op, ok, mode) ==
    IF op = "shuffle" THEN (IF ok THEN {"Shuffle toggled"} ELSE {})
    ELSE IF op = "loop"
    THEN (IF ~ok THEN {}
          ELSE IF mode = "Track" THEN {"Repeat: Track"}
          ELSE IF mode = "Playlist" THEN {"Repeat: Playlist"}
          ELSE {"Repeat: None"})
    ELSE (IF ok THEN {} ELSE {"Seek not supported"})

\* The shuffle and loop buttons (lines 439-467): a POST to the plugin.
CtlToggleClick ==
    /\ playerPanel
    /\ \E button \in {"shuffle", "loop"} :
         Set(BeginMpris(Cur, button, "ui"))
    /\ toasts' = {}
    /\ lastStatus' = NoStatus
    /\ UNCHANGED <<booted, fetchVars, pluginVars, authorization>>

\* A click on the progress bar (lines 470-484) with the duration the panel
\* has stored: seekToPosition (lines 355-371) posts to the plugin in Local
\* mode and does nothing in Remote mode.
CtlSeekClick ==
    /\ playerPanel
    /\ \E durationMs \in {0, 200000} :
         Set(IF durationMs > 0 /\ settings.useMpris
             THEN BeginMpris(Cur, "seek", "ui") ELSE Cur)
    /\ toasts' = {}
    /\ lastStatus' = NoStatus
    /\ UNCHANGED <<booted, fetchVars, pluginVars, authorization>>

\* The plugin answers a shuffle, loop or seek request (a thrown fetch is
\* only logged).
CtlPluginResponse ==
    /\ \E t \in BagToSet(tasks) :
         /\ t.pc = "mpris" /\ t.op \in {"shuffle", "loop", "seek"}
         /\ Set(DropTask(Cur, t))
         /\ \E ok \in BOOLEAN, threw \in BOOLEAN, mode \in Loops :
              toasts' = IF threw THEN {} ELSE PluginToasts(t.op, ok, mode)
    /\ lastStatus' = NoStatus
    /\ UNCHANGED <<booted, fetchVars, pluginVars, authorization>>

CtlNext ==
    \/ CtlClock
    \/ CtlCommand
    \/ CtlRefreshOk
    \/ CtlRefreshFail
    \/ CtlRefreshNetError
    \/ CtlApiResponse
    \/ CtlMprisResponse
    \/ CtlToggleClick
    \/ CtlSeekClick
    \/ CtlPluginResponse

ControlSpec == CtlInit /\ [][CtlNext]_vars

\* ========================================================== state fetch
\* fetchPlayerState as the polls call it, with the value it resolves to.

\* The error field of the value fetchPlayerState resolves to for a remote
\* response: it returns null (lines 242 and 252) or the parsed body (line
\* 249); the Error of line 246 that carries the status is logged at line
\* 251 and dropped, and null has no fields.
ApiFetchError(status, body) == NoStatus

\* The statuses the currently-playing endpoint answers with (0: the request
\* failed on the network).
FetchStatuses == {200, 204, 401, 403, 429, 500, 0}

\* progress_ms and item.duration_ms of a polled state.
Positions == {0, 100, 300}
Durations == {0, 200}

\* updatePlayerUI lines 559-561: the width of the progress bar after data
\* with progress_ms = p and item.duration_ms = d has been rendered.  It is
\* set only for a track with a non-zero duration and with a panel (a bare
\* item throws before line 559).
RenderProgress(data, p, d) ==
    IF playerPanel /\ data = "track" /\ d # 0
    THEN [num |-> p, den |-> d]
    ELSE progressBar

\* The interval fires: updatePlayerUI up to its first network await.
FetchTick ==
    /\ \E id \in timers :
         /\ Set(UpdatePlayerUI(Cur, "tick"))
         /\ fetched' = IF ~settings.useMpris /\ GetValidToken(Cur) = "null"
                       THEN [value |-> "null", error |-> NoStatus]
                       ELSE fetched
    /\ toasts' = {}
    /\ lastStatus' = NoStatus
    /\ lastPlugin' = {}
    /\ UNCHANGED <<booted, progressBar, pluginVars, authorization>>

FetchClock ==
    /\ now < MaxClock * ClockStep
    /\ Set([Cur EXCEPT !.now = @ + ClockStep])
    /\ toasts' = {}
    /\ lastStatus' = NoStatus
    /\ UNCHANGED <<booted, fetched, progressBar, pluginVars, authorization>>
    /\ lastPlugin' = {}

FetchRefreshOk ==
    /\ \E t \in BagToSet(tasks) :
         /\ t.pc = "refresh"
         /\ \E a \in Tokens, r \in {NoToken} \cup Tokens, e \in ExpiresIn :
              LET s1 == RefreshSuccess(DropTask(Cur, t),
                           [access |-> a, refresh |-> r, expires_in |-> e])
              IN Set(WithToken(s1, t, TokenAfterRefresh(s1, t)))
    /\ toasts' = {}
    /\ lastStatus' = NoStatus
    /\ UNCHANGED <<booted, fetched, progressBar, pluginVars, authorization>>
    /\ lastPlugin' = {}

FetchRefreshFail ==
    /\ expiredNotices < MaxNotices
    /\ \E t \in BagToSet(tasks) :
         /\ t.pc = "refresh"
         /\ Set(NoTokenContinue(RefreshRejected(DropTask(Cur, t)),
                                t.op, t.origin))
         /\ toasts' = RefreshRejectedToasts \cup NoTokenToasts(t.op)
    /\ fetched' = [value |-> "null", error |-> NoStatus]
    /\ lastStatus' = NoStatus
    /\ lastPlugin' = {}
    /\ UNCHANGED <<booted, progressBar, pluginVars, authorization>>

FetchRefreshNetError ==
    /\ \E t \in BagToSet(tasks) :
         /\ t.pc = "refresh"
         /\ Set(NoTokenContinue(DropTask(Cur, t), t.op, t.origin))
         /\ toasts' = NoTokenToasts(t.op)
    /\ fetched' = [value |-> "null", error |-> NoStatus]
    /\ lastStatus' = NoStatus
    /\ lastPlugin' = {}
    /\ UNCHANGED <<booted, progressBar, pluginVars, authorization>>

\* The currently-playing endpoint answers.
FetchApiResponse ==
    /\ \E t \in BagToSet(tasks) :
         /\ t.pc = "api" /\ t.op = "update"
         /\ \E status \in FetchStatuses,
                 body \in {"track", "noItem", "bareItem"},
                 p \in Positions, d \in Durations :
              /\ Set(Render(DropTask(Cur, t), t.origin,
                            ApiFetchResult(status, body)))
              /\ progressBar' = RenderProgress(ApiFetchResult(status, body),
                                               p, d)
              /\ fetched' = [value |-> ApiFetchResult(status, body),
                             error |-> ApiFetchError(status, body)]
              /\ lastStatus' = status
    /\ toasts' = {}
    /\ lastPlugin' = {}
    /\ UNCHANGED <<booted, pluginVars, authorization>>

\* What GET /api/plugins/mpris/status answers: the values getPlayerState of
\* the plugin returns (index.mjs lines 43, 73-84 and 87).
NoError == ""
NoPlayerState ==
    [available |-> FALSE, playing |-> FALSE, shuffle |-> FALSE,
     loop |-> "None", error |-> NoError]
FailedState(message) == [NoPlayerState EXCEPT !.error = message]
PlayingState(playing, shuffle, loop) ==
    [available |-> TRUE, playing |-> playing, shuffle |-> shuffle,
     loop |-> loop, error |-> NoError]
PluginStates ==
    {NoPlayerState, FailedState("TypeError")}
    \cup {PlayingState(p, sh, l) : p \in BOOLEAN, sh \in BOOLEAN, l \in Loops}

\* fetchMprisState returning the plugin's state without testing available.
MprisFetchValue_Unchecked(ok, data) ==
    IF ~ok THEN "null" ELSE "track"

\* fetchMprisState lines 324-349 on the plugin's state.
MprisFetchValue(ok, data) == MprisFetchResult(ok, data.available)

\* The local plugin answers GET status (a thrown fetch is ok = FALSE).
FetchMprisResponse ==
    /\ \E t \in BagToSet(tasks) :
         /\ t.pc = "mpris" /\ t.op = "update"
         /\ \E ok \in BOOLEAN, data \in PluginStates,
                 p \in Positions, d \in Durations :
              /\ Set(Render(DropTask(Cur, t), t.origin,
                            MprisFetchValue(ok, data)))
              /\ progressBar' = RenderProgress(MprisFetchValue(ok, data),
                                               p, d)
              /\ fetched' = [value |-> MprisFetchValue(ok, data),
                             error |-> NoStatus]
              /\ lastPlugin' = IF ok THEN {data} ELSE {}
    /\ toasts' = {}
    /\ lastStatus' = NoStatus
    /\ UNCHANGED <<booted, pluginVars, authorization>>

FetchNext ==
    \/ FetchTick
    \/ FetchClock
    \/ FetchRefreshOk
    \/ FetchRefreshFail
    \/ FetchRefreshNetError
    \/ FetchApiResponse
    \/ FetchMprisResponse

FetchSpec == CtlInit /\ [][FetchNext]_vars

\* ======================================================= plugin bridge
\* getPlayerState of the server plugin (index.mjs lines 36-89): every
\* `await playerctl(...)` spawns one process, and the exit of that process
\* is one step.  bridge.calls lists the queries issued so far.

\* What the queries print.  The metadata query prints the format string
\* filled in: an object in JSON, a text that does not parse (a title with a
\* quote in it), nothing, or, from a playerctl that ignores --format, JSON
\* that is no object.
ObjectTexts == {"{object}", "{song}", "{stream}"}
MetadataOutputs == {NullOut, "", "{broken", "null"} \cup ObjectTexts
StatusOutputs == {NullOut, "Playing", "Paused", "Stopped"}
FieldOutputs == {NullOut, "", "text"}
PositionOutputs == {NullOut, "12.5", "30.0", "0.0019"}
ToggleOutputs == {NullOut, "On", "Off"}
LoopOutputs == {NullOut} \cup Loops

\* JavaScript truthiness of what playerctl() returns (null and '' are falsy).
Truthy(out) == out # NullOut /\ out # ""

\* JSON.parse(metadataRaw): the kind of value it returns, or "throws".
JsonParse(raw) ==
    IF raw \in ObjectTexts THEN "object"
    ELSE IF raw = "null" THEN "null"
    ELSE "throws"

\* a || b on what playerctl() returns.
Or(out, default) == IF Truthy(out) THEN out ELSE default

\* The object JSON.parse returns for each text of ObjectTexts, with the six
\* fields of the format string of line 40 (a stream reports them all empty).
ObjectFields(raw) ==
    IF raw = "{song}"
    THEN [title |-> "Song A", artist |-> "Band", album |-> "", artUrl |-> "",
          position |-> "30.0", length |-> "200000000"]
    ELSE IF raw = "{stream}"
    THEN [title |-> "", artist |-> "", album |-> "", artUrl |-> "",
          position |-> "", length |-> ""]
    ELSE [title |-> "text", artist |-> "text", album |-> "text",
          artUrl |-> "text", position |-> "12.5", length |-> "1999"]

\* parseFloat on the decimal texts above; a number of seconds is held in
\* millionths, the six decimals playerctl prints.
ParseFloat(text) ==
    CASE text = "30.0" -> 30000000
      [] text = "12.5" -> 12500000
      [] text = "0.0019" -> 1900
      [] text = "0" -> 0

\* parseInt(text, 10) on the length texts above.
ParseInt(text) ==
    CASE text = "200000000" -> 200000000
      [] text = "1999" -> 1999
      [] text = "0" -> 0

\* Math.floor(positionSec * 1000), positionSec in millionths.
ProgressMs(positionSec) == positionSec \div 1000

\* Math.floor(lengthUs / 1000).
DurationMs(lengthUs) == lengthUs \div 1000

\* playerctl(q) is called and awaited at position pc.
Query(b, q, pc) == [b EXCEPT !.calls = Append(@, q), !.pc = pc]

\* The awaited playerctl() call resolves with out.
Answer(b, out) == [b EXCEPT !.outputs = Append(@, out)]

\* getPlayerState returns state.
Return(b, state) == [b EXCEPT !.pc = "done", !.result = {state}]

\* getPlayerState without its outer try/catch: the promise is rejected.
OuterCatch_Rethrow(b, message) == [b EXCEPT !.pc = "raised"]

\* The catch block of lines 85-88.
OuterCatch(b, message) == Return(b, FailedState(message))

\* getPlayerState going on to the status query whatever the metadata
\* query printed.
AfterMetadata_NoShortCircuit(b, out) ==
    Query([b EXCEPT !.raw = out], "status", "status")

\* Lines 42-47: after the metadata query.
AfterMetadata(b, out) ==
    IF ~Truthy(out) THEN Return([b EXCEPT !.raw = out], NoPlayerState)
    ELSE Query([b EXCEPT !.raw = out], "status", "status")

\* Lines 48-66: after the status query, JSON.parse and the first query of
\* the branch taken.
AfterStatus(b, out) ==
    LET b1 == [b EXCEPT !.playing = (out = "Playing")]
        parsed == JsonParse(b.raw)
    IN IF parsed = "throws"
       THEN Query([b1 EXCEPT !.metadata = "fallback"],
                  "metadata title", "title")
       ELSE Query([b1 EXCEPT !.metadata = parsed,
                             !.fields = IF parsed = "object"
                                        THEN ObjectFields(b.raw) ELSE @],
                  "position", "position")

\* The fallback asking for the title only and going on to the position
\* query.
AfterField_TitleOnly(b, out) ==
    Query([b EXCEPT !.fields.title = Or(out, "Unknown"),
                    !.fields.artist = "Unknown"],
          "position", "position")

\* Lines 57-66: the per-field queries of the fallback, one after the other.
AfterField(b, out) ==
    IF b.pc = "title"
    THEN Query([b EXCEPT !.fields.title = Or(out, "Unknown")],
               "metadata artist", "artist")
    ELSE IF b.pc = "artist"
    THEN Query([b EXCEPT !.fields.artist = Or(out, "Unknown")],
               "metadata album", "album")
    ELSE IF b.pc = "album"
    THEN Query([b EXCEPT !.fields.album = Or(out, "")],
               "metadata mpris:artUrl", "artUrl")
    ELSE Query([b EXCEPT !.fields.artUrl = Or(out, "")],
               "position", "position")

\* getPlayerState reading the position off the metadata object instead of
\* the answer of the position query.
AfterPosition_FromRecord(b, out) ==
    LET b1 == [b EXCEPT !.positionSec = ParseFloat(Or(b.fields.position, "0"))]
    IN IF b.metadata = "null" THEN OuterCatch(b1, "TypeError")
       ELSE Query(b1, "shuffle", "shuffle")

\* Lines 66-70: positionSec is parsed from the answer of the position
\* query; then metadata.length is read, which on a metadata that is null is
\* a TypeError inside the outer try.
AfterPosition(b, out) ==
    LET b1 == [b EXCEPT !.positionSec = ParseFloat(Or(out, "0"))]
    IN IF b.metadata = "null" THEN OuterCatch(b1, "TypeError")
       ELSE Query(b1, "shuffle", "shuffle")

\* Lines 70-71.
AfterShuffle(b, out) ==
    Query([b EXCEPT !.shuffle = (out = "On")], "loop", "loop")

\* The object of lines 73-84; a metadata without length (the fallback's)
\* reads as '0' like an empty one.
TrackState(b, loop) ==
    [available |-> TRUE, playing |-> b.playing,
     title |-> Or(b.fields.title, "Unknown"),
     artist |-> Or(b.fields.artist, "Unknown"),
     album |-> Or(b.fields.album, ""),
     artUrl |-> Or(b.fields.artUrl, ""),
     progress_ms |-> ProgressMs(b.positionSec),
     duration_ms |-> DurationMs(ParseInt(Or(b.fields.length, "0"))),
     shuffle |-> b.shuffle, loop |-> loop, error |-> NoError]

\* Lines 71-84.
AfterLoop(b, out) == Return(b, TrackState(b, Or(out, "None")))

\* The plugin is loaded, no request is being served; the extension's page
\* is as the module leaves it.
BridgeInit == Init /\ saved = defaultSettings

\* GET /api/plugins/mpris/status (lines 107-110) calls getPlayerState, which
\* issues the metadata query (line 40).
GetStatusRequest ==
    /\ bridge.pc \in {"idle", "done"}
    /\ bridge' = Query(IdleBridge, "metadata", "metadata")
    /\ UNCHANGED <<extensionVars, route, player>>

MetadataExit ==
    /\ bridge.pc = "metadata"
    /\ \E out \in MetadataOutputs : bridge' = AfterMetadata(Answer(bridge, out), out)
    /\ UNCHANGED <<extensionVars, route, player>>

StatusExit ==
    /\ bridge.pc = "status"
    /\ \E out \in StatusOutputs : bridge' = AfterStatus(Answer(bridge, out), out)
    /\ UNCHANGED <<extensionVars, route, player>>

FieldExit ==
    /\ bridge.pc \in {"title", "artist", "album", "artUrl"}
    /\ \E out \in FieldOutputs : bridge' = AfterField(Answer(bridge, out), out)
    /\ UNCHANGED <<extensionVars, route, player>>

PositionExit ==
    /\ bridge.pc = "position"
    /\ \E out \in PositionOutputs : bridge' = AfterPosition(Answer(bridge, out), out)
    /\ UNCHANGED <<extensionVars, route, player>>

ShuffleExit ==
    /\ bridge.pc = "shuffle"
    /\ \E out \in ToggleOutputs : bridge' = AfterShuffle(Answer(bridge, out), out)
    /\ UNCHANGED <<extensionVars, route, player>>

LoopExit ==
    /\ bridge.pc = "loop"
    /\ \E out \in LoopOutputs : bridge' = AfterLoop(Answer(bridge, out), out)
    /\ UNCHANGED <<extensionVars, route, player>>

BridgeNext ==
    \/ GetStatusRequest
    \/ MetadataExit
    \/ StatusExit
    \/ FieldExit
    \/ PositionExit
    \/ ShuffleExit
    \/ LoopExit

BridgeSpec == BridgeInit /\ [][BridgeNext]_vars

\* ======================================================= plugin commands
\* The command routes of the plugin (index.mjs lines 143-179), one request
\* after the other; every `await playerctl(...)` is one step.  route.calls
\* lists the playerctl commands issued for the request being served,
\* route.history the loop requests answered so far.

\* A playerctl command line: the verb and its argument ("" for none).
Cmd(verb, arg) == [verb |-> verb, arg |-> arg]
NoArg == ""

\* const modes = ['None', 'Track', 'Playlist'] (line 174).
modes == <<"None", "Track", "Playlist">>

\* modes.indexOf(current): the 0-based place of current, -1 if absent.
IndexOf(current) ==
    IF \E i \in DOMAIN modes : modes[i] = current
    THEN (CHOOSE i \in DOMAIN modes : modes[i] = current) - 1
    ELSE -1

\* The loop route stepping on without wrapping around.
NextMode_NoWrap(current) ==
    IF IndexOf(current) + 2 \in DOMAIN modes
    THEN modes[IndexOf(current) + 2] ELSE "Playlist"

\* Line 176: modes[(currentIndex + 1) % modes.length].
NextMode(current) == modes[((IndexOf(current) + 1) % Len(modes)) + 1]

\* Request bodies: req.body.position / req.body.volume with its typeof.
\* JSON carries numbers, strings, null (typeof 'object') or no such key.
Payloads ==
    {[type |-> "number", value |-> v] : v \in {0, 30}}
    \cup {[type |-> "string", value |-> 30],
          [type |-> "object", value |-> 0],
          [type |-> "undefined", value |-> 0]}

\* res.json(...) / res.status(400).json(...).
Response(status, success, mode, error) ==
    [status |-> status, success |-> success, mode |-> mode, error |-> error]

\* What `playerctl loop` prints.
LoopOutput(p) == IF p.running THEN p.loop ELSE NullOut

\* The effect of `playerctl loop <mode>` on the player.
SetLoop(p, mode) == IF p.running THEN [p EXCEPT !.loop = mode] ELSE p

\* A request for verb arrives with payload in its body: the record of the
\* previous request is dropped.
NewRequest(r, verb, payload) ==
    [r EXCEPT !.verb = verb, !.payload = payload, !.calls = <<>>,
              !.response = {}, !.current = NullOut]

\* playerctl(cmd) is called and awaited at position pc.
Issue(r, cmd, pc) == [r EXCEPT !.calls = Append(@, cmd), !.pc = pc]

\* The handler answers.
Respond(r, response) == [r EXCEPT !.pc = "done", !.response = {response}]

\* The seek route invoking the bridge whatever the payload is.
NumericRoute_Unchecked(r, verb, payload, message) ==
    Issue(NewRequest(r, verb, payload), Cmd(verb, payload.value), verb)

\* Lines 143-162: the seek (verb "position") and volume routes up to
\* their await.
NumericRoute(r, verb, payload, message) ==
    IF payload.type = "number"
    THEN Issue(NewRequest(r, verb, payload), Cmd(verb, payload.value), verb)
    ELSE Respond(NewRequest(r, verb, payload),
                 Response(400, FALSE, NoArg, message))

Players == [running : BOOLEAN, loop : Loops]

RouteInit ==
    /\ ExtensionInit
    /\ saved = defaultSettings
    /\ player \in Players

\* POST /api/plugins/mpris/loop: the current mode is read (line 173).
LoopRequest ==
    /\ route.pc \in {"idle", "done"}
    /\ Len(route.history) < MaxRequests
    /\ route' = Issue(NewRequest(route, "loop", IdleRoute.payload),
                      Cmd("loop", NoArg), "loopRead")
    /\ UNCHANGED <<extensionVars, bridge, player>>

\* The read exits; the next mode is computed and issued (lines 174-177).
LoopReadExit ==
    /\ route.pc = "loopRead"
    /\ LET current == LoopOutput(player) IN
         route' = Issue([route EXCEPT !.current = current],
                        Cmd("loop", NextMode(current)), "loopSet")
    /\ UNCHANGED <<extensionVars, bridge, player>>

\* The set exits; the response reports the mode issued (line 178).
LoopSetExit ==
    /\ route.pc = "loopSet"
    /\ LET issued == route.calls[Len(route.calls)].arg IN
         /\ player' = SetLoop(player, issued)
         /\ route' = Respond(
               [route EXCEPT !.history =
                   Append(@, [read |-> route.current, issued |-> issued])],
               Response(200, TRUE, issued, NoArg))
    /\ UNCHANGED <<extensionVars, bridge>>

\* POST /api/plugins/mpris/seek with req.body.position = payload.
SeekRequest ==
    /\ route.pc \in {"idle", "done"}
    /\ \E payload \in Payloads :
         route' = NumericRoute(route, "position", payload,
                               "Position required")
    /\ UNCHANGED <<extensionVars, bridge, player>>

\* POST /api/plugins/mpris/volume with req.body.volume = payload.
VolumeRequest ==
    /\ route.pc \in {"idle", "done"}
    /\ \E payload \in Payloads :
         route' = NumericRoute(route, "volume", payload, "Volume required")
    /\ UNCHANGED <<extensionVars, bridge, player>>

\* The position or volume command exits (lines 146-147, 157-158).
NumericExit ==
    /\ route.pc \in {"position", "volume"}
    /\ route' = Respond(route, Response(200, TRUE, NoArg, NoArg))
    /\ UNCHANGED <<extensionVars, bridge, player>>

\* The player is started or quit, or its loop mode is changed in the
\* player's own window.
PlayerChanges ==
    /\ \E p \in Players \ {player} : player' = p
    /\ UNCHANGED <<extensionVars, bridge, route>>

RouteNext ==
    \/ LoopRequest
    \/ LoopReadExit
    \/ LoopSetExit
    \/ SeekRequest
    \/ VolumeRequest
    \/ NumericExit
    \/ PlayerChanges

RouteSpec == RouteInit /\ [][RouteNext]_vars

\* ----------------------------------------------------- the authorization
\* generateRandomString(16), the state of line 73, and the state parameter
\* a redirect to the page carries.
Nonces == {1, 2}

\* The authorization code a redirect to the page carries; the handlers pass
\* it on without looking at it, so one value stands for all.
Codes == {1}

\* initiateAuth lines 69-86: a new attempt with state nonce is under way.
NewAttempt(a, nonce) ==
    [a EXCEPT !.state = nonce, !.ran = FALSE, !.disconnected = FALSE]

\* The listener of lines 104-112 on a message {type, code} of the popup
\* that was redirected to /?code=code&state=st (checkAuthRedirect lines
\* 119-126 post the code alone): exchangeCodeForToken(code) is called,
\* once per listener, whatever st and whatever the attempt under way.
CodeArrives(a, code, st, calls) ==
    [a EXCEPT !.exchanges =
        Append(@, [code |-> code, state |-> st, session |-> a.state,
                   ran |-> a.ran, calls |-> calls])]

\* The click handler of #spotify_connect_btn: initiateAuth.
AuthConnectClick ==
    /\ connectionStatus = "Disconnected"
    /\ listeners < MaxConnects
    /\ settings.clientId # NoToken
    /\ Set(InitiateAuth(Cur))
    /\ \E nonce \in Nonces :
          authorization' = NewAttempt(authorization, nonce)
    /\ UNCHANGED <<booted, toasts, lastStatus, fetchVars, pluginVars>>

\* The popup posts the code of its redirect; every listener sends a token
\* request.
AuthCodeArrives ==
    /\ listeners > 0 /\ codeVerifier
    /\ Len(authorization.exchanges) < MaxRedirects
    /\ Set([Cur EXCEPT !.tasks = @ (+)
              [t \in {Task("exchange", "none", "token", NoToken, NoToken,
                            NoToken, FALSE)}
                 |-> listeners]])
    /\ \E code \in Codes, st \in Nonces :
          authorization' = CodeArrives(authorization, code, st, listeners)
    /\ UNCHANGED <<booted, toasts, lastStatus, fetchVars, pluginVars>>

\* exchangeCodeForToken has run: it returns after lines 158-165.
AuthExchangeOk ==
    /\ \E t \in BagToSet(tasks) :
         /\ t.pc = "token"
         /\ CanSetInterval(Cur)
         /\ \E a \in Tokens, r \in {NoToken} \cup Tokens, e \in ExpiresIn :
              Set(ExchangeSuccess(DropTask(Cur, t),
                    [access |-> a, refresh |-> r, expires_in |-> e]))
    /\ authorization' = [authorization EXCEPT !.ran = TRUE]
    /\ UNCHANGED <<booted, toasts, lastStatus, fetchVars, pluginVars>>

\* exchangeCodeForToken has run: it returns after lines 166-172.
AuthExchangeFail ==
    /\ \E t \in BagToSet(tasks) :
         /\ t.pc = "token"
         /\ Set(DropTask(Cur, t))
    /\ authorization' = [authorization EXCEPT !.ran = TRUE]
    /\ UNCHANGED <<booted, toasts, lastStatus, fetchVars, pluginVars>>

\* The click handler of #spotify_disconnect_btn has returned.
AuthDisconnectClick ==
    /\ connectionStatus = "Connected"
    /\ Set(Disconnect(Cur))
    /\ authorization' = [authorization EXCEPT !.disconnected = TRUE]
    /\ UNCHANGED <<booted, toasts, lastStatus, fetchVars, pluginVars>>

AuthNext ==
    \/ AuthConnectClick
    \/ AuthCodeArrives
    \/ AuthExchangeOk
    \/ AuthExchangeFail
    \/ AuthDisconnectClick
    \/ Tick
    \/ AdvanceClock
    \/ RefreshOk
    \/ RefreshFail
    \/ RefreshNetError
    \/ ApiFetchResponse

\* The page in Remote mode, the only mode that uses the tokens.
AuthInit == CtlInit /\ ~settings.useMpris

AuthSpec == AuthInit /\ [][AuthNext]_vars

\* ---------------------------------------------------------------- claims
\* The calls in flight that satisfy P, counted with their multiplicity.
InFlight(P(_)) ==
    BagCardinality([t \in {x \in BagToSet(tasks) : P(x)} |-> tasks[t]])

IsTickFetch(t) == t.op = "update" /\ t.origin = "tick"
IsPollFetch(t) == t.op = "update" /\ t.origin \in {"tick", "start", "restart"}
IsRestartFetch(t) == t.op = "update" /\ t.origin = "restart"
IsRefresh(t) == t.pc = "refresh"
IsApi(t) == t.pc = "api"

\* C1: poll ticks are not reentrant: at most one fetchPlayerState call
\* started by a tick of the interval is in flight at any time.
C1_TicksNotReentrant == InFlight(IsTickFetch) <= 1

\* C2: after stopPolling and until the next startPolling (pollingInterval is
\* null exactly then), no call of updatePlayerUI made by the scheduler
\* reaches its render step with a panel to write to.
C2_NoRenderAfterStop ==
    [][\A t \in BagToSet(tasks) :
          (IsPollFetch(t) /\ tasks' = tasks (-) SetToBag({t}) /\ playerPanel)
             => pollingInterval # Null]_vars

\* C3: at most one repeating poll timer is set, and exactly one, the one
\* pollingInterval names, whenever the last scheduler call was startPolling
\* (pollingInterval is non-null exactly then).
C3_OneTimer ==
    /\ Cardinality(timers) <= 1
    /\ pollingInterval # Null => timers = {pollingInterval}

\* startPolling has been called twice in a row (the second call found the
\* first one's timer set, and its updatePlayerUI call is still waiting) and
\* one timer is set.
C3_Witness ==
    /\ InFlight(IsRestartFetch) >= 1
    /\ pollingInterval # Null
    /\ Cardinality(timers) = 1

\* C4: at most one refresh request to the token endpoint is in flight.
C4_SingleRefresh == InFlight(IsRefresh) <= 1

\* C5: the "session expired" notice is shown once per failure: no notice is
\* shown for a refresh that a poll requested after an earlier notice, while
\* no new token has been obtained.
C5_NoticeOnce ==
    [][expiredNotices' > expiredNotices =>
          ~\E t \in BagToSet(tasks) :
              /\ IsPollFetch(t) /\ IsRefresh(t) /\ t.afterReject
              /\ tasks' = tasks (-) SetToBag({t})]_vars

\* C6: after a rejected refresh no caller sends another refresh request or
\* is handed a token, until a new authorization.
C6_RejectedStaysInvalid == \A t \in BagToSet(tasks) : ~t.afterReject

\* C7: getValidToken hands out the stored token without a refresh only
\* when now < tokenExpiry - 60000 (steps in which a caller that was not
\* waiting for a refresh sends its remote request).
C7_StoredTokenOnlyBeforeSkew ==
    [][\A t \in BagToSet(tasks') :
          (IsApi(t) /\ tasks' = tasks (+) SetToBag({t}))
             => now' < settings'.tokenExpiry - SkewMs]_vars

\* C8: whatever token fields the settings hold have been handed to
\* saveSettings, and a token was saved before a caller used it.
C8_SavedBeforeUse ==
    /\ booted => /\ saved.accessToken = settings.accessToken
                 /\ saved.tokenExpiry = settings.tokenExpiry
    /\ \A t \in BagToSet(tasks) : IsApi(t) => t.savedTok = t.token

\* A request in flight carries a token that a refresh or a code exchange
\* obtained (the stored settings of Init hold token 1 at most).
C8_Witness ==
    \E t \in BagToSet(tasks) : IsApi(t) /\ t.token = 2 /\ t.savedTok = 2

\* C9: a remote request is sent with the access token the settings hold at
\* the moment it is sent.
C9_SentTokenIsStored ==
    \A t \in BagToSet(tasks) : IsApi(t) => t.token = t.stored

\* A caller that found token 1 stored waited for a refresh, meanwhile the
\* stored token changed, and its request went out with the new one.
C9_Witness ==
    /\ settings.accessToken = 2
    /\ \E t \in BagToSet(tasks) : IsApi(t) /\ t.token = 2 /\ t.op = "control"
    /\ \E t \in BagToSet(tasks) : IsRefresh(t) /\ t.token = 1

\* C10: the disconnect handler leaves accessToken and refreshToken empty
\* and tokenExpiry 0, in the settings and in what was handed to saveSettings.
TokensCleared(r) ==
    r.accessToken = NoToken /\ r.refreshToken = NoToken /\ r.tokenExpiry = 0

C10_DisconnectClears ==
    [][DisconnectClick => TokensCleared(settings') /\ TokensCleared(saved')]_vars

\* The disconnect handler has run on a connected session: the panel is
\* enabled but removed, the status reads Disconnected, a token was loaded.
C10_Witness ==
    /\ booted /\ settings.enablePanel /\ ~playerPanel
    /\ connectionStatus = "Disconnected"
    /\ pollingInterval = Null
    /\ TokensCleared(settings) /\ TokensCleared(saved)

\* C11: the scheduler is running after every mode switch: the change handler
\* of #spotify_use_mpris, having stopped the scheduler and changed the mode,
\* leaves a poll timer set.
C11_RunningAfterSwitch ==
    [][UseMprisChanged => pollingInterval' # Null]_vars

\* The backend a fetch in flight was sent to is the active one.
FromActiveBackend(t) == (t.pc = "mpris") = settings.useMpris

IsBackendFetch(t) == t.op = "update" /\ t.pc \in {"api", "mpris"}

\* C12: a state fetched from the backend of the previous mode is not
\* rendered: every fetchPlayerState response that reaches the render step
\* with a panel to write to was sent to the backend of the active mode.
C12_NoStaleBackendRender ==
    [][\A t \in BagToSet(tasks) :
          (IsBackendFetch(t) /\ tasks' = tasks (-) SetToBag({t}) /\ playerPanel)
             => FromActiveBackend(t)]_vars

\* C13: no error escapes a poll: whatever the backend answers, the
\* updatePlayerUI call of a tick that reaches its render step with a panel
\* leaves the panel showing a track or the not-playing state (it
\* never stops half way with a rejected promise).
C13_PollRendersWellFormed ==
    [][\A t \in BagToSet(tasks) :
          (IsTickFetch(t) /\ tasks' = tasks (-) SetToBag({t}) /\ playerPanel)
             => panelView' \in {"track", "notPlaying"}]_vars

\* C14: in Remote mode a control command for which getValidToken yields no
\* token sends no request to the remote player API and displays the
\* not-connected warning.  getValidToken yields null at once (no token
\* stored, or an expiring one that cannot be refreshed) or after a refresh
\* that was rejected or failed.
C14_NoTokenNoRequest ==
    [][/\ (CtlCommand /\ ~settings.useMpris /\ GetValidToken(Cur) = "null")
           => /\ tasks' = tasks
              /\ "Not connected to Spotify." \in toasts'
       /\ \A t \in BagToSet(tasks) :
            (t.op = "control" /\ IsRefresh(t)
             /\ tasks' = tasks (-) SetToBag({t}))
               => "Not connected to Spotify." \in toasts']_vars

\* A command was refused for want of a token while another command's
\* request is in flight: nothing was added to it.
C14_Witness ==
    /\ ~settings.useMpris
    /\ GetValidToken(Cur) = "null"
    /\ toasts = {"Not connected to Spotify."}
    /\ InFlight(IsApi) = 1

CapabilityNotice ==
    "Spotify Premium required for controls (or no active device found)."
NoDeviceNotice ==
    "No active Spotify device found. Start playback on a device first."
FailedNotice == "Failed to send command."

\* C15: a remote control command answered 403 displays the
\* capability-unavailable notice and nothing else, one answered 404 the
\* no-active-device notice and nothing else; the two notices differ and
\* neither is the generic failure notice.
C15_DistinctNotices ==
    /\ lastStatus = 403 => toasts = {CapabilityNotice}
    /\ lastStatus = 404 => toasts = {NoDeviceNotice}
    /\ Cardinality({CapabilityNotice, NoDeviceNotice, FailedNotice}) = 3

\* A command has just been answered 403 while a second one is in flight.
C15_Witness ==
    /\ lastStatus = 403
    /\ toasts = {CapabilityNotice}
    /\ InFlight(IsApi) = 1

\* C16: a remote control command answered 200 or 204 displays no notice,
\* and the generic failure notice is displayed only for a response status
\* other than 200, 204, 403 and 404 or for a network error (status 0).
C16_SuccessStatuses ==
    /\ lastStatus \in {200, 204} => toasts = {}
    /\ FailedNotice \in toasts
         => lastStatus \in ControlStatuses \ {200, 204, 403, 404}

\* C17: a remote fetchPlayerState whose response status is neither 200 nor
\* 204 resolves to an unavailable state whose error field is that status.
C17_ErrorRecordsStatus ==
    lastStatus \in FetchStatuses \ {200, 204, 0}
       => fetched.value = "null" /\ fetched.error = lastStatus

Unavailable == [value |-> "null", error |-> NoStatus]

\* C18: fetchPlayerState resolves to the same unavailable value for a
\* remote HTTP 204 and for a local plugin state without a running player,
\* and the panel, if there is one, shows the not-playing state after both.
C18_SameUnavailable ==
    (lastStatus = 204 \/ NoPlayerState \in lastPlugin)
       => /\ fetched = Unavailable
          /\ playerPanel => panelView = "notPlaying"

\* The plugin has just reported that no player runs, the panel shows Not
\* Playing and the next poll is already in flight.
C18_Witness ==
    /\ NoPlayerState \in lastPlugin
    /\ settings.useMpris
    /\ fetched = Unavailable
    /\ playerPanel /\ panelView = "notPlaying"
    /\ tasks # EmptyBag

\* The places of query q in the list of the queries issued.
Places(q) == {i \in DOMAIN bridge.calls : bridge.calls[i] = q}

\* Query q1 is issued once at most, and before any q2.
IssuedBefore(q1, q2) ==
    /\ Cardinality(Places(q1)) <= 1
    /\ \A i \in Places(q1), j \in Places(q2) : i < j

\* The metadata query has exited with nothing usable (null or empty).
MetadataUnavailable ==
    bridge.pc \notin {"idle", "metadata"} /\ ~Truthy(bridge.raw)

\* C19: getPlayerState issues the metadata, status, shuffle and loop
\* queries in this order, all four before it returns an available state;
\* when the metadata query prints nothing or fails it returns
\* {available: false, playing: false} after that one query.
C19_QueryOrder ==
    /\ IssuedBefore("metadata", "status")
    /\ IssuedBefore("status", "shuffle")
    /\ IssuedBefore("shuffle", "loop")
    /\ Cardinality(Places("loop")) <= 1
    /\ bridge.calls # <<>> => bridge.calls[1] = "metadata"
    /\ \A r \in bridge.result :
         r.available =>
            \A q \in {"metadata", "status", "shuffle", "loop"} :
               Places(q) # {}
    /\ MetadataUnavailable
         => /\ bridge.result = {NoPlayerState}
            /\ bridge.calls = <<"metadata">>

\* The metadata query printed nothing and the call has returned.
C19_Witness ==
    /\ bridge.pc = "done"
    /\ bridge.raw = ""
    /\ bridge.calls = <<"metadata">>
    /\ bridge.result = {NoPlayerState}

\* The call has returned a state with available: false.
ReturnedUnavailable ==
    bridge.pc = "done" /\ \A r \in bridge.result : ~r.available

\* Metadata outputs that are empty or do not parse to an object.
MalformedOrEmpty == {"", "{broken", "null"}

IssuedModes == [i \in DOMAIN route.history |-> route.history[i].issued]

\* Each request read the mode the previous one issued, the first one None.
Consecutive ==
    /\ route.history # <<>> => route.history[1].read = "None"
    /\ \A i \in DOMAIN route.history :
         i > 1 => route.history[i].read = route.history[i - 1].issued

CycleSuccessor(m) ==
    IF m = "None" THEN "Track" ELSE IF m = "Track" THEN "Playlist" ELSE "None"

\* C21: a loop request first reads the current mode, then issues its
\* successor in None -> Track -> Playlist -> None as an absolute mode and
\* reports that mode; three consecutive requests from None issue Track,
\* Playlist, None.
C21_LoopCycle ==
    /\ route.pc \in {"loopRead", "loopSet"}
         => route.calls[1] = Cmd("loop", NoArg)
    /\ route.pc = "loopSet"
         => /\ Len(route.calls) = 2
            /\ route.current \in Loops
                 => route.calls[2] = Cmd("loop", CycleSuccessor(route.current))
    /\ \A i \in DOMAIN route.history :
         route.history[i].read \in Loops
            => route.history[i].issued = CycleSuccessor(route.history[i].read)
    /\ (route.pc = "done" /\ Len(route.calls) = 2)
         => route.response =
              {Response(200, TRUE, route.calls[2].arg, NoArg)}
    /\ (Consecutive /\ Len(route.history) >= 3)
         => SubSeq(IssuedModes, 1, 3) = <<"Track", "Playlist", "None">>

\* Three loop requests in a row on a running player that started with
\* loop None have been answered, the third one just now.
C21_Witness ==
    /\ Consecutive
    /\ Len(route.history) = 3
    /\ route.pc = "done" /\ Len(route.calls) = 2
    /\ player.running /\ player.loop = "None"

\* C22: a seek or volume request whose payload is not a number is answered
\* 400 without any bridge invocation; one whose payload is a number causes
\* exactly one invocation, with that value, and the answer {success: true}.
C22_NumericPayload ==
    route.verb \in {"position", "volume"} =>
       IF route.payload.type # "number"
       THEN /\ route.pc = "done"
            /\ route.calls = <<>>
            /\ \A r \in route.response : r.status = 400 /\ ~r.success
            /\ route.response # {}
       ELSE /\ route.calls = <<Cmd(route.verb, route.payload.value)>>
            /\ route.pc = "done"
                 => route.response = {Response(200, TRUE, NoArg, NoArg)}

\* A seek request that carried its position as a string has been answered.
C22_Witness ==
    /\ route.verb = "position"
    /\ route.payload = [type |-> "string", value |-> 30]
    /\ route.pc = "done"
    /\ route.calls = <<>>

IsUiCommand(t) ==
    t.origin = "ui" /\ t.op \in {"control", "shuffle", "loop", "seek"}

\* C23: every control action of the panel is routed to the active backend
\* only: a click sends no request to the local plugin in Remote mode and
\* none to the remote player API in Local mode.
C23_ActiveBackendOnly ==
    [][\A t \in BagToSet(tasks') :
          (IsUiCommand(t) /\ tasks' = tasks (+) SetToBag({t}))
             => /\ t.pc = "mpris" => settings.useMpris
                /\ t.pc = "api" => ~settings.useMpris]_vars

\* C24: the progress ratio the panel derives from a polled state lies in
\* [0, 1] for every duration and position, also for a position past the
\* duration, and none is derived for a duration of 0.
C24_ProgressInUnitInterval ==
    progressBar # NoProgress
       => /\ progressBar.den > 0
          /\ 0 <= progressBar.num
          /\ progressBar.num <= progressBar.den

\* What the bridge printed for query q (asked once in the call).
Answered(q) == bridge.outputs[CHOOSE i \in Places(q) : TRUE]

\* n is x / 1000 rounded down.
IsFloorOfThousandth(n, x) == n * 1000 <= x /\ x < (n + 1) * 1000

\* A call has returned for a metadata output that parsed to a record whose
\* title, artist, position and length are all reported.
ReturnedForRecord ==
    /\ bridge.pc = "done"
    /\ bridge.metadata = "object"
    /\ \A f \in {"title", "artist", "position", "length"} :
          Truthy(bridge.fields[f])

\* C25 as stated: for a parseable metadata record with title T, artist A,
\* position p seconds, length L microseconds and status S, getPlayerState
\* returns available: true, playing iff S = Playing, title T, artist A,
\* floor(p * 1000) ms and floor(L / 1000) ms, p being the position of the
\* metadata record.
C25_PositionOfRecord ==
    ReturnedForRecord =>
       \A r \in bridge.result :
          /\ r.available
          /\ r.playing <=> Answered("status") = "Playing"
          /\ r.title = bridge.fields.title
          /\ r.artist = bridge.fields.artist
          /\ IsFloorOfThousandth(r.progress_ms,
                                 ParseFloat(bridge.fields.position))
          /\ IsFloorOfThousandth(r.duration_ms,
                                 ParseInt(bridge.fields.length))

\* C25, amended: as above, but p is the number of seconds the position
\* query prints after the status query (0 when it fails or prints nothing),
\* whatever the position of the metadata record; for position 30.0 and
\* length 200000000 the state has 30000 and 200000.
C25_PositionOfQuery ==
    ReturnedForRecord =>
       \A r \in bridge.result :
          /\ r.available
          /\ r.playing <=> Answered("status") = "Playing"
          /\ r.title = bridge.fields.title
          /\ r.artist = bridge.fields.artist
          /\ IsFloorOfThousandth(r.progress_ms,
                                 ParseFloat(Or(Answered("position"), "0")))
          /\ IsFloorOfThousandth(r.duration_ms,
                                 ParseInt(bridge.fields.length))
          /\ Answered("position") = "30.0" => r.progress_ms = 30000
          /\ bridge.fields.length = "200000000" => r.duration_ms = 200000

\* The call has returned for the record of Song A while the position query
\* printed another position than the record's.
C25_Witness ==
    /\ ReturnedForRecord
    /\ bridge.raw = "{song}"
    /\ Answered("status") = "Playing"
    /\ Answered("position") = "12.5"
    /\ \E r \in bridge.result :
          r.title = "Song A" /\ r.progress_ms = 12500 /\ r.duration_ms = 200000

\* C26: once exchangeCodeForToken has run for an authorization attempt, the
\* stored code verifier no longer exists, and no code that arrives later is
\* exchanged with it.
C26_SessionDestroyed ==
    /\ authorization.ran => ~codeVerifier
    /\ \A i \in DOMAIN authorization.exchanges :
         ~authorization.exchanges[i].ran

\* C27: every code handed to exchangeCodeForToken arrived while an
\* authorization attempt was open (started by initiateAuth, not exchanged
\* yet) and with the state nonce that attempt generated.
C27_CodeBoundToSession ==
    \A i \in DOMAIN authorization.exchanges :
       LET e == authorization.exchanges[i]
       IN /\ e.session # 0 /\ ~e.ran
          /\ e.state = e.session

\* The refresh requests in flight.
Refreshing == InFlight(LAMBDA t : t.pc = "refresh")

\* refreshAccessToken would return at line 177.
CannotRefresh == settings.refreshToken = NoToken \/ settings.clientId = NoToken

\* C28: a refresh that succeeds stores the response's access token and the
\* expiry derived from it, stores the response's refresh token if it has
\* one and keeps the stored one otherwise, and touches no other setting;
\* with an empty refreshToken or clientId no refresh request is sent and no
\* setting changes.
C28_RefreshFrame ==
    [][/\ (Refreshing' < Refreshing /\ authorization'.response # NoResponse)
          => LET data == authorization'.response
             IN /\ settings'.accessToken = data.access
                /\ settings'.tokenExpiry = now + data.expires_in * 1000
                /\ data.refresh # NoToken
                     => settings'.refreshToken = data.refresh
                /\ data.refresh = NoToken
                     => settings'.refreshToken = settings.refreshToken
                /\ \A f \in {"clientId", "enablePanel", "useMpris"} :
                     settings'[f] = settings[f]
       /\ (CannotRefresh /\ Refreshing = 0)
          => Refreshing' = 0 /\ settings' = settings]_vars

\* A refresh has succeeded on a response without a refresh token: the
\* stored refresh token is still there, next to the new access token.
C28_Witness ==
    /\ authorization.response # NoResponse
    /\ authorization.response.refresh = NoToken
    /\ settings.accessToken = authorization.response.access
    /\ settings.refreshToken # NoToken

\* The per-field queries of the fallback, in the order of lines 57-60.
FieldQueries ==
    <<"metadata title", "metadata artist", "metadata album",
      "metadata mpris:artUrl">>

\* C29: when the metadata output is non-empty and does not parse,
\* getPlayerState asks the bridge once for each of title, artist, album and
\* artwork, in this order, right after the status query, and the state it
\* returns holds those four answers ('Unknown' for an empty title or
\* artist, '' for an empty album or artwork).
C29_FieldFallback ==
    bridge.raw = "{broken" =>
       /\ \A i \in DOMAIN FieldQueries :
             /\ Cardinality(Places(FieldQueries[i])) <= 1
             /\ Places(FieldQueries[i]) \subseteq {2 + i}
       /\ bridge.pc \in {"position", "shuffle", "loop", "done"}
             => \A i \in DOMAIN FieldQueries : Places(FieldQueries[i]) # {}
       /\ bridge.pc = "done"
             => \A r \in bridge.result :
                   /\ r.available
                   /\ r.title = Or(Answered("metadata title"), "Unknown")
                   /\ r.artist = Or(Answered("metadata artist"), "Unknown")
                   /\ r.album = Or(Answered("metadata album"), "")
                   /\ r.artUrl = Or(Answered("metadata mpris:artUrl"), "")

\* A call has returned after the fallback: the title query printed a text,
\* the artist query failed.
C29_Witness ==
    /\ bridge.pc = "done"
    /\ bridge.raw = "{broken"
    /\ SubSeq(bridge.calls, 3, 6) = FieldQueries
    /\ Answered("metadata title") = "text"
    /\ Answered("metadata artist") = NullOut
    /\ \E r \in bridge.result : r.title = "text" /\ r.artist = "Unknown"

\* C30: from the return of the disconnect handler until the user starts a
\* new authorization, accessToken, refreshToken and tokenExpiry stay empty
\* and 0, whatever token request was in flight at the disconnect.
C30_DisconnectedStaysEmpty ==
    authorization.disconnected =>
       /\ settings.accessToken = NoToken
       /\ settings.refreshToken = NoToken
       /\ settings.tokenExpiry = 0

\* C31: a code delivered to the main window is handed to
\* exchangeCodeForToken once at most, however many listeners the Connect
\* clicks so far have registered.
C31_ExchangedOnce ==
    \A i \in DOMAIN authorization.exchanges :
       authorization.exchanges[i].calls <= 1
====
